---- MODULE Spec2Model ----
(***************************************************************************)
(* Model of the errify attribute macros: the argument grammar, the target  *)
(* parser, the output builders of the four generations of the macro crate  *)
(* kept in the repository, and the execution of the function they emit.    *)
(*                                                                         *)
(*   errify_derive            context / with_context, first generation     *)
(*   errify-macros/context_macro   context / with_context                  *)
(*   errify-macros/errify_macro    errify / errify_with, error-type        *)
(*                                 override                                *)
(*   errify-macros/{input,output}.rs  errify / errify_with, WrapErr on the *)
(*                                 function's own error type               *)
(*                                                                         *)
(* The host parser (syn) is consumed as a black box; it is modelled on a   *)
(* token alphabet of five kinds, with expressions being literals, paths    *)
(* and closures.                                                           *)
(***************************************************************************)
EXTENDS Integers, Sequences, FiniteSets, TLC

VARIABLES features, exp, run

vars == <<features, exp, run>>

\* ------------------------------------------------------------------ bounds
\* Largest value of the annotated function's argument `arg`.
MaxArg == 2
\* Longest macro-argument token sequence of the argument-grammar specification.
MaxArgTokens == 4
\* Longest formal-argument list given to clear_inputs.
MaxInputs == 3
\* Most generic arguments of a return type given to ok_ty.
MaxGenericArgs == 2

ArgValues == 1..MaxArg

\* ------------------------------------------------------------- generations
GDerive == "errify_derive"
GContext == "context_macro"
GErrify == "errify_macro"
GRoot == "errify_macros"

Generations == {GDerive, GContext, GErrify, GRoot}

\* The generations whose entry points are context / with_context.
ContextGens == {GDerive, GContext}

\* An entry point: the generation and whether it is the lazy macro.
Entries == [gen : Generations, lazy : BOOLEAN]

\* -------------------------------------------------------------- the tokens
\* "str" a string literal, "num" any other literal, "id" an identifier (a
\* path, a type and an expression at once), "," and "|".
Tokens == {"str", "num", "id", ",", "|"}

Backends == {"anyhow", "eyre"}

\* -------------------------------------------------------- parse results
NoExpr == [e |-> "none", params |-> 0, body |-> <<>>]

Atom(t) == [e |-> t, params |-> 0, body |-> <<>>]

ClosureExpr(n, b) == [e |-> "closure", params |-> n, body |-> <<b>>]

NoCx == [shape |-> "None", args |-> <<>>, expr |-> NoExpr]

LiteralCx(a) == [shape |-> "Literal", args |-> a, expr |-> NoExpr]

ExprCx(x) == [shape |-> "Expr", args |-> <<>>, expr |-> x]

ClosureCx(x) == [shape |-> "Closure", args |-> <<>>, expr |-> x]

FunctionCx(x) == [shape |-> "Function", args |-> <<>>, expr |-> x]

NoArgs == [err_ty |-> <<>>, cx |-> NoCx]

POk(p, v) == [ok |-> TRUE, pos |-> p, msg |-> "", val |-> v]

PErr(p, m, v) == [ok |-> FALSE, pos |-> p, msg |-> m, val |-> v]

Peek(toks, i, t) == i <= Len(toks) /\ toks[i] = t

IsEmptyAt(toks, i) == i > Len(toks)

\* The one element of a one-element set.  `Only({f(r) : r \in {x}})` is
\* f(x) with x evaluated once.
Only(S) == CHOOSE y \in S : TRUE

\* ----------------------------------------------- the host parser (syn)
\* Expr::parse on the fragment: a literal, a path, or a closure with zero or
\* one parameter.
RECURSIVE ParseExpr(_, _)
ParseExpr(toks, i) ==
    IF IsEmptyAt(toks, i) THEN PErr(i, "expected an expression", NoExpr)
    ELSE IF toks[i] \in {"str", "num", "id"} THEN POk(i + 1, Atom(toks[i]))
    ELSE IF toks[i] = "|" /\ Peek(toks, i + 1, "|") THEN
        Only({IF b.ok THEN POk(b.pos, ClosureExpr(0, b.val)) ELSE b :
              b \in {ParseExpr(toks, i + 2)}})
    ELSE IF toks[i] = "|" /\ Peek(toks, i + 1, "id") /\ Peek(toks, i + 2, "|") THEN
        Only({IF b.ok THEN POk(b.pos, ClosureExpr(1, b.val)) ELSE b :
              b \in {ParseExpr(toks, i + 3)}})
    ELSE PErr(i, "expected an expression", NoExpr)

\* Type::parse: of the five token kinds only an identifier starts a type.
ParseType(toks, i) ==
    IF Peek(toks, i, "id") THEN POk(i + 1, "id") ELSE PErr(i, "expected a type", "")

\* Path::parse.
ParsePath(toks, i) ==
    IF Peek(toks, i, "id") THEN POk(i + 1, Atom("id"))
    ELSE PErr(i, "expected identifier", NoExpr)

\* One more expression read by parse_terminated: e is the expression, r the
\* rest of the sequence after its comma.
TerminatedCons(e, r) == IF r.ok THEN POk(r.pos, <<e.val>> \o r.val) ELSE r

\* ParseStream::parse_terminated(Expr::parse, Token![,]): expressions
\* separated by commas up to the end of the input, trailing comma allowed.
RECURSIVE ParseTerminated(_, _)
ParseTerminated(toks, i) ==
    IF IsEmptyAt(toks, i) THEN POk(i, <<>>)
    ELSE Only({IF ~e.ok THEN PErr(e.pos, e.msg, <<>>)
               ELSE IF IsEmptyAt(toks, e.pos) THEN POk(e.pos, <<e.val>>)
               ELSE IF toks[e.pos] = "," THEN
                   Only({TerminatedCons(e, r) : r \in {ParseTerminated(toks, e.pos + 1)}})
               ELSE PErr(e.pos, "expected comma", <<>>) :
               e \in {ParseExpr(toks, i)}})

\* The end check of syn::parse2 on a parse result.
EndCheck(r, toks) ==
    IF ~r.ok THEN r
    ELSE IF r.pos <= Len(toks) THEN PErr(r.pos, "unexpected token", r.val)
    ELSE r

\* syn::parse2: the parse function runs on the whole token sequence and the
\* cursor it was handed must have reached the end.
Parse2(res, toks) == Only({EndCheck(r, toks) : r \in {res}})

\* ------------------------------------------------- the argument grammar
\* The trailing check shared by the context parsers: tokens left after the
\* context shape are an error.
\* A parser without the trailing check.
LeftoverIgnored(r, toks) == r

LeftoverCheck(r, toks) ==
    IF r.ok /\ ~IsEmptyAt(toks, r.pos) THEN PErr(r.pos, "Unexpected tokens", NoCx)
    ELSE r

Leftover(res, toks) == Only({LeftoverCheck(r, toks) : r \in {res}})

\* A context of one expression: the shape made of a parsed expression; a
\* failed parse fails with the message msg, or with syn's when msg is "".
ExprShape(e, shape, msg) ==
    IF e.ok THEN POk(e.pos, [shape |-> shape, args |-> <<>>, expr |-> e.val])
    ELSE PErr(e.pos, IF msg = "" THEN e.msg ELSE msg, NoCx)

OfExpr(res, shape, msg) == Only({ExprShape(e, shape, msg) : e \in {res}})

LiteralShape(a) == IF a.ok THEN POk(a.pos, LiteralCx(a.val)) ELSE PErr(a.pos, a.msg, NoCx)

\* The literal branch: the literal, an optional comma, and after a comma the
\* comma-separated arguments.
LiteralBranch(toks, i) ==
    IF Peek(toks, i + 1, ",")
    THEN Only({LiteralShape(a) : a \in {ParseTerminated(toks, i + 2)}})
    ELSE POk(i + 1, LiteralCx(<<>>))

\* ExplicitContext::parse (errify_macro) and ImmediateContext::parse.
ExplicitContextParse(toks, i) ==
    Leftover(IF Peek(toks, i, "str") THEN LiteralBranch(toks, i)
             ELSE OfExpr(ParseExpr(toks, i), "Expr", ""),
             toks)

\* A faulty closure test: one | is enough, so a closure with parameters
\* passes it.
LazyContextParseAnyClosure(toks, i) ==
    Leftover(IF Peek(toks, i, "|")
             THEN OfExpr(ParseExpr(toks, i), "Closure", "")
             ELSE OfExpr(ParsePath(toks, i), "Function", ""),
             toks)

\* LazyContext::parse: the closure test comes first, then a path is required.
LazyContextParse(toks, i) ==
    Leftover(IF Peek(toks, i, "|") /\ Peek(toks, i + 1, "|")
             THEN OfExpr(ParseExpr(toks, i), "Closure", "")
             ELSE OfExpr(ParsePath(toks, i), "Function", ""),
             toks)

ContextOnly == "The macro supports literal with positions arguments and custom error only"

WithContextOnly == "The macro supports closure and function only"

DeriveContextOnly ==
    "The #[errify::context_macro(...)] macro supports literal with positions arguments and custom error only"

DeriveWithContextOnly == "The #[errify::with_context(...)] macro supports closure and function only"

\* ContextArgs::parse of context_macro: empty input is the None shape.
ContextArgsParse(toks, i) ==
    Leftover(IF IsEmptyAt(toks, i) THEN POk(i, NoCx)
             ELSE IF Peek(toks, i, "str") THEN LiteralBranch(toks, i)
             ELSE OfExpr(ParseExpr(toks, i), "Expr", ContextOnly),
             toks)

\* WithContextArgs::parse of context_macro.
WithContextArgsParse(toks, i) ==
    Leftover(IF Peek(toks, i, "|") /\ Peek(toks, i + 1, "|")
             THEN OfExpr(ParseExpr(toks, i), "Closure", "")
             ELSE OfExpr(ParsePath(toks, i), "Function", WithContextOnly),
             toks)

\* ContextArgs::parse of errify_derive: the arguments follow the literal
\* directly, and there is no trailing check of its own.
DeriveContextArgsParse(toks, i) ==
    IF IsEmptyAt(toks, i) THEN POk(i, NoCx)
    ELSE IF Peek(toks, i, "str")
    THEN Only({LiteralShape(a) : a \in {ParseTerminated(toks, i + 1)}})
    ELSE OfExpr(ParseExpr(toks, i), "Expr", DeriveContextOnly)

\* WithContextArgs::parse of errify_derive.
DeriveWithContextArgsParse(toks, i) ==
    IF Peek(toks, i, "|") /\ Peek(toks, i + 1, "|")
    THEN OfExpr(ParseExpr(toks, i), "Closure", "")
    ELSE OfExpr(ParsePath(toks, i), "Function", DeriveWithContextOnly)

\* Where the cursor handed to ErrifyMacroArgs::parse stands when the override
\* branch returns: the type, the comma and the context were read from the
\* fork, and the fork is dropped.
OverrideCursor(start, forkPos) == start

\* The context grammar of an entry point.
CxParser(entry, toks, i) ==
    CASE entry.gen \in {GErrify, GRoot} /\ ~entry.lazy -> ExplicitContextParse(toks, i)
      [] entry.gen \in {GErrify, GRoot} /\ entry.lazy -> LazyContextParse(toks, i)
      [] entry.gen = GContext /\ ~entry.lazy -> ContextArgsParse(toks, i)
      [] entry.gen = GContext /\ entry.lazy -> WithContextArgsParse(toks, i)
      [] entry.gen = GDerive /\ ~entry.lazy -> DeriveContextArgsParse(toks, i)
      [] entry.gen = GDerive /\ entry.lazy -> DeriveWithContextArgsParse(toks, i)

\* The arguments made of a parsed context: cursor is where the cursor of the
\* argument parser stands, err_ty the override.
ArgsOf(cx, cursor, err_ty) ==
    IF cx.ok THEN POk(cursor, [err_ty |-> err_ty, cx |-> cx.val])
    ELSE PErr(cx.pos, cx.msg, NoArgs)

\* The override branch: the context is parsed from the fork, after the comma.
OverrideBranch(entry, toks, ty) ==
    Only({ArgsOf(cx, OverrideCursor(1, cx.pos), <<ty.val>>) :
          cx \in {CxParser(entry, toks, ty.pos + 1)}})

\* The argument parsers without an override: the context, parsed from the
\* cursor.
PlainParse(entry, toks) ==
    Only({ArgsOf(cx, cx.pos, <<>>) : cx \in {CxParser(entry, toks, 1)}})

\* A faulty fallback: the type tried on the fork is consumed from the cursor
\* too, and the context is parsed from what follows it.
OverrideParseConsuming(entry, toks) ==
    IF ParseType(toks, 1).ok /\ Peek(toks, ParseType(toks, 1).pos, ",")
    THEN OverrideBranch(entry, toks, ParseType(toks, 1))
    ELSE IF ParseType(toks, 1).ok
    THEN Only({ArgsOf(cx, cx.pos, <<>>) : cx \in {CxParser(entry, toks, ParseType(toks, 1).pos)}})
    ELSE PlainParse(entry, toks)

\* ErrifyMacroArgs::parse and ErrifyWithMacroArgs::parse of errify_macro: a
\* type and a comma are tried on a fork; without the comma the context is
\* parsed from the cursor itself.
OverrideParse(entry, toks) ==
    IF ParseType(toks, 1).ok /\ Peek(toks, ParseType(toks, 1).pos, ",")
    THEN OverrideBranch(entry, toks, ParseType(toks, 1))
    ELSE PlainParse(entry, toks)

\* The argument parser of an entry point, before syn::parse2's end check.
ArgsParser(entry, toks) ==
    IF entry.gen = GErrify THEN OverrideParse(entry, toks) ELSE PlainParse(entry, toks)

\* syn::parse2::<...Args>(args) of the entry point.
ParseMacroArgs(entry, toks) == Parse2(ArgsParser(entry, toks), toks)

\* ------------------------------------------------------ the annotated item
\* A return type: `arrow` is ReturnType::Type against ReturnType::Default,
\* `kind` the Type variant, `segs` the path segments, `angle` whether the last
\* segment carries angle-bracketed arguments, `gargs` those arguments.
TypeArg(n) == [kind |-> "type", name |-> n]

NoReturn == [arrow |-> FALSE, kind |-> "none", segs |-> <<>>, angle |-> FALSE, gargs |-> <<>>]

PathTy(segs, angle, gargs) ==
    [arrow |-> TRUE, kind |-> "path", segs |-> segs, angle |-> angle, gargs |-> gargs]

ResultTy == PathTy(<<"Result">>, TRUE, <<TypeArg("i32"), TypeArg("CustomError")>>)

I32Ty == PathTy(<<"i32">>, FALSE, <<>>)

\* -> (i32, i32): a type that is no path.
TupleTy == [arrow |-> TRUE, kind |-> "tuple", segs |-> <<>>, angle |-> FALSE, gargs |-> <<>>]

\* The generic arguments of a last path segment: types, a lifetime, a const.
GenericArgs ==
    {TypeArg("i32"), TypeArg("CustomError"), [kind |-> "lifetime", name |-> "'a"],
     [kind |-> "const", name |-> "1"]}

\* The return types ok_ty is applied to: none, a tuple, and paths of one or
\* three segments whose last segment has no angle brackets or has up to
\* MaxGenericArgs arguments between them.
ReturnTypes ==
    {NoReturn, TupleTy}
        \cup {PathTy(segs, FALSE, <<>>) : segs \in {<<"Result">>, <<"std", "result", "Result">>}}
        \cup {PathTy(segs, TRUE, g) :
                segs \in {<<"Result">>, <<"std", "result", "Result">>},
                g \in UNION {[1..k -> GenericArgs] : k \in 0..MaxGenericArgs}}

\* A formal argument: a receiver, or a typed pattern.
Receiver == [kind |-> "receiver", attrs |-> <<>>, pat |-> "self", name |-> "self", ty |-> "Self"]

TypedArg(pat, name, ty) == [kind |-> "typed", attrs |-> <<>>, pat |-> pat, name |-> name, ty |-> ty]

ArgI32 == TypedArg("ident", "arg", "i32")

\* The formal arguments clear_inputs is applied to: the receiver, plain
\* identifiers (one of them attributed), a tuple pattern.
InputChoices ==
    {Receiver, ArgI32, TypedArg("ident", "arg1", "u8"),
     [TypedArg("ident", "flag", "bool") EXCEPT !.attrs = <<"cfg">>],
     TypedArg("tuple", "", "(i32, i32)")}

InputLists == UNION {[1..k -> InputChoices] : k \in 0..MaxInputs}

NoGenerics == [params |-> <<>>, where |-> ""]

\* `syntax` says what the item's tokens parse as: "fn" (an ItemFn and an
\* ImplItemFn), "default_fn" (an ImplItemFn only), "impl_const" (another impl
\* item), "other" (neither).  `block` names the body.
BaseFn(b) ==
    [syntax |-> "fn", attrs |-> <<>>, vis |-> "", defaultness |-> FALSE,
     constness |-> FALSE, asyncness |-> FALSE, unsafety |-> FALSE, abi |-> "",
     ident |-> "test", generics |-> NoGenerics, inputs |-> <<ArgI32>>,
     output |-> ResultTy, block |-> b]

Bodies == {"ok", "err", "odd"}

\* pub, attributed, generic, async unsafe extern "C".
DecoratedFn ==
    [BaseFn("err") EXCEPT !.attrs = <<"inline">>, !.vis = "pub", !.asyncness = TRUE,
                          !.unsafety = TRUE, !.abi = "C",
                          !.generics = [params |-> <<[name |-> "T", default |-> FALSE]>>,
                                        where |-> "T: Copy"]]

PubFn == [BaseFn("odd") EXCEPT !.vis = "pub"]

AsyncFn == [BaseFn("err") EXCEPT !.asyncness = TRUE]

UnsafeFn == [BaseFn("err") EXCEPT !.unsafety = TRUE]

ConstDefaultedFn ==
    [BaseFn("ok") EXCEPT !.constness = TRUE,
                         !.generics = [params |-> <<[name |-> "T", default |-> TRUE]>>,
                                       where |-> ""]]

MethodFn == [BaseFn("odd") EXCEPT !.inputs = <<Receiver, TypedArg("ident", "arg", "i32")>>]

TupleArgFn ==
    [BaseFn("err") EXCEPT !.inputs = <<TypedArg("ident", "arg", "i32"), TypedArg("tuple", "", "(i32, i32)")>>]

DefaultFn == [BaseFn("err") EXCEPT !.syntax = "default_fn", !.defaultness = TRUE]

\* #[inline] pub default fn.
PubDefaultFn == [DefaultFn EXCEPT !.attrs = <<"inline">>, !.vis = "pub"]

NoReturnFn == [BaseFn("ok") EXCEPT !.output = NoReturn]

I32Fn == [BaseFn("ok") EXCEPT !.output = I32Ty]

ImplConst == [BaseFn("ok") EXCEPT !.syntax = "impl_const"]

OtherItem == [BaseFn("ok") EXCEPT !.syntax = "other"]

Items ==
    {BaseFn(b) : b \in Bodies}
        \cup {DecoratedFn, PubFn, AsyncFn, UnsafeFn, ConstDefaultedFn, MethodFn, TupleArgFn,
              DefaultFn, PubDefaultFn, NoReturnFn, I32Fn, ImplConst, OtherItem}

\* ------------------------------------------------------- the target parser
\* Input::parse of errify_macro and of the root: one ImplItemFn.
ParseImplItemFn(item) ==
    IF item.syntax \in {"fn", "default_fn"}
    THEN [ok |-> TRUE, kind |-> "Fn", msg |-> "", skipped |-> {}]
    ELSE [ok |-> FALSE, kind |-> "", msg |-> "expected fn", skipped |-> {}]

TargetOnly == "The macro supports only impl block or function"

DeriveTargetOnly == "The #[errify::context_macro(...)] macro supports only impl block or function"

\* The leading parts of the item, among those it has.
Leading(item, parts) ==
    {q \in parts : \/ q = "attrs" /\ item.attrs # <<>>
                   \/ q = "vis" /\ item.vis # ""
                   \/ q = "const" /\ (item.constness \/ item.syntax = "impl_const")}

\* input.parse::<ItemFn>() on the cursor of Input::parse: the outer
\* attributes, the visibility and the qualifiers of the signature are read
\* in turn from the cursor itself, and stay read when a later token is not
\* the one expected: before `default` the attributes and the visibility,
\* before the name of an associated const the `const` keyword as well.
ItemFnAttempt(item) ==
    CASE item.syntax = "fn" -> [ok |-> TRUE, read |-> {}]
      [] item.syntax = "impl_const" ->
            [ok |-> FALSE, read |-> Leading(item, {"attrs", "vis", "const"})]
      [] OTHER -> [ok |-> FALSE, read |-> Leading(item, {"attrs", "vis"})]

\* input.parse::<ImplItem>() on what the first attempt left: attributes and
\* visibility are optional, the keyword of the entry is not.
ImplItemAttempt(item, read) ==
    \/ item.syntax = "default_fn"
    \/ item.syntax = "impl_const" /\ "const" \notin read

\* Input::parse of context_macro and errify_derive: an ItemFn (a Method when
\* its first argument is a receiver), else an ImplItem, else an error with
\* the message msg.
ParseTargetItem(item, msg) ==
    IF ItemFnAttempt(item).ok THEN
        IF Len(item.inputs) > 0 /\ item.inputs[1].kind = "receiver"
        THEN [ok |-> TRUE, kind |-> "Method", msg |-> "", skipped |-> {}]
        ELSE [ok |-> TRUE, kind |-> "Function", msg |-> "", skipped |-> {}]
    ELSE IF ImplItemAttempt(item, ItemFnAttempt(item).read)
    THEN [ok |-> TRUE, kind |-> "Impl", msg |-> "", skipped |-> ItemFnAttempt(item).read]
    ELSE [ok |-> FALSE, kind |-> "", msg |-> msg, skipped |-> ItemFnAttempt(item).read]

ParseInputOf(entry, item) ==
    CASE entry.gen = GContext -> ParseTargetItem(item, TargetOnly)
      [] entry.gen = GDerive -> ParseTargetItem(item, DeriveTargetOnly)
      [] OTHER -> ParseImplItemFn(item)

\* ------------------------------------------------------------ utils.rs
InvalidReturn == "Invalid return type. Expected Result<...>"

OkNotFound == "Ok type of Result<Ok, Err> not found"

\* ok_ty: the first generic argument of the last path segment.
\* A faulty ok_ty: the first generic argument is taken whatever its kind.
ok_ty_any_argument(ret) ==
    IF ~ret.arrow \/ ret.kind # "path" \/ ~ret.angle
    THEN [ok |-> FALSE, msg |-> InvalidReturn, ty |-> TypeArg("")]
    ELSE IF Len(ret.gargs) = 0 THEN [ok |-> FALSE, msg |-> OkNotFound, ty |-> TypeArg("")]
    ELSE [ok |-> TRUE, msg |-> "", ty |-> ret.gargs[1]]

ok_ty(ret) ==
    IF ~ret.arrow THEN [ok |-> FALSE, msg |-> InvalidReturn, ty |-> TypeArg("")]
    ELSE IF ret.kind # "path" THEN [ok |-> FALSE, msg |-> InvalidReturn, ty |-> TypeArg("")]
    ELSE IF ~ret.angle THEN [ok |-> FALSE, msg |-> InvalidReturn, ty |-> TypeArg("")]
    ELSE IF Len(ret.gargs) = 0 THEN [ok |-> FALSE, msg |-> OkNotFound, ty |-> TypeArg("")]
    ELSE IF ret.gargs[1].kind # "type" THEN [ok |-> FALSE, msg |-> InvalidReturn, ty |-> TypeArg("")]
    ELSE [ok |-> TRUE, msg |-> "", ty |-> ret.gargs[1]]

\* A faulty identifier: the position is counted from one.
CleanIdentOneBased(arg, idx) ==
    IF arg.pat = "ident" THEN arg.name ELSE "arg" \o ToString(idx + 1)

\* The identifier clear_inputs gives the argument at zero-based index idx.
CleanIdent(arg, idx) == IF arg.pat = "ident" THEN arg.name ELSE "arg" \o ToString(idx)

\* clear_inputs: a receiver anywhere is an error; every other argument keeps
\* its attributes and type and gets an identifier.
clear_inputs(inputs) ==
    IF \E i \in 1..Len(inputs) : inputs[i].kind = "receiver"
    THEN [ok |-> FALSE, msg |-> "self argument not supported", args |-> <<>>]
    ELSE [ok |-> TRUE, msg |-> "",
          args |-> [i \in 1..Len(inputs) |->
                       [kind |-> "typed", attrs |-> inputs[i].attrs, pat |-> "ident",
                        name |-> CleanIdent(inputs[i], i - 1), ty |-> inputs[i].ty]]]

\* call_inputs: the identifiers, in order.
call_inputs(args) == [i \in 1..Len(args) |-> args[i].name]

\* Generics::split_for_impl as the signature re-emits it: the parameters
\* without their defaults, and the where clause.
split_for_impl(g) ==
    [params |-> [i \in 1..Len(g.params) |-> [name |-> g.params[i].name, default |-> FALSE]],
     where |-> g.where]

\* ------------------------------------------------------ backend selection
AmbiguousErrTy == "Ambiguous error type. Choose either anyhow or eyre"

AmbiguousContextProvider == "Ambiguous using errify_macro provider. Choose either anyhow or eyre"

DeriveAmbiguousContextProvider ==
    "Ambiguous using context_macro provider. Choose either anyhow or eyre"

AmbiguousErrorProvider == "Ambiguous using error provider. Choose either anyhow or eyre"

NoBackend == "None of the anyhow or eyre features are enabled"

\* The diagnostics of the backend checks.
ConfigDiags ==
    {AmbiguousErrTy, AmbiguousContextProvider, DeriveAmbiguousContextProvider,
     AmbiguousErrorProvider, NoBackend}

AnyhowError == "anyhow::Error"

EyreReport == "eyre::Report"

\* A faulty ladder: with both features enabled anyhow wins.
SelectBackendFirst(feats, ambiguous) ==
    IF "anyhow" \in feats THEN [ok |-> TRUE, msg |-> "", backend |-> "anyhow"]
    ELSE IF "eyre" \in feats THEN [ok |-> TRUE, msg |-> "", backend |-> "eyre"]
    ELSE [ok |-> FALSE, msg |-> NoBackend, backend |-> ""]

\* The cfg! ladder shared by the three backend checks: both features, then
\* neither, then anyhow, then eyre.
SelectBackend(feats, ambiguous) ==
    IF "anyhow" \in feats /\ "eyre" \in feats THEN [ok |-> FALSE, msg |-> ambiguous, backend |-> ""]
    ELSE IF "anyhow" \notin feats /\ "eyre" \notin feats THEN [ok |-> FALSE, msg |-> NoBackend, backend |-> ""]
    ELSE IF "anyhow" \in feats THEN [ok |-> TRUE, msg |-> "", backend |-> "anyhow"]
    ELSE [ok |-> TRUE, msg |-> "", backend |-> "eyre"]

CanonicalErrTy(backend) == IF backend = "anyhow" THEN AnyhowError ELSE EyreReport

\* error_provider::generic.
error_provider_generic(feats) ==
    LET b == SelectBackend(feats, AmbiguousErrorProvider)
    IN  [ok |-> b.ok, msg |-> b.msg, ty |-> IF b.ok THEN CanonicalErrTy(b.backend) ELSE ""]

\* A faulty err_ty block: with no feature enabled it falls back to anyhow.
SelectErrTyDefault(err_ty, feats) ==
    IF Len(err_ty) > 0 THEN [ok |-> TRUE, msg |-> "", ty |-> err_ty[1]]
    ELSE IF "anyhow" \in feats /\ "eyre" \in feats
    THEN [ok |-> FALSE, msg |-> AmbiguousErrTy, ty |-> ""]
    ELSE [ok |-> TRUE, msg |-> "",
          ty |-> IF "eyre" \in feats THEN "eyre::Report" ELSE "anyhow::Error"]

\* The err_ty block of Output::from_ast (errify_macro): the override when the
\* arguments carry one, else the backend's type.
SelectErrTy(err_ty, feats) ==
    IF Len(err_ty) > 0 THEN [ok |-> TRUE, msg |-> "", ty |-> err_ty[1]]
    ELSE LET b == SelectBackend(feats, AmbiguousErrTy)
         IN  [ok |-> b.ok, msg |-> b.msg, ty |-> IF b.ok THEN CanonicalErrTy(b.backend) ELSE ""]

\* ------------------------------------------------------- the emitted code
NoCall == [callee |-> "", args |-> <<>>, await |-> FALSE, unsafe_scope |-> FALSE]

\* One statement of the emitted outer body.
\*   let_cx_format   let __errify_cx = <format the literal with its arguments>
\*   let_cx_expr     let __errify_cx = <the expression>
\*   let_cx_closure  let __errify_cx = <the closure>   (binds, calls nothing)
\*   call            the call of the inner callable
\*   wrap_value / wrap_closure / wrap_path
\*                   Ok(v) is passed on; Err(e) is wrapped with the context
\*                   value, with the closure's result, with the path's result
Stmt(op, cx, api, ty, call) == [op |-> op, cx |-> cx, api |-> api, ty |-> ty, call |-> call]

CallStmt(call) == Stmt("call", NoCx, "", "", call)

\* A faulty apply_context: every shape is evaluated into __errify_cx before
\* the call.
apply_context_eager(call, cx, err_ty) ==
    <<Stmt("let_cx_expr", cx, "", "", NoCall), CallStmt(call),
      Stmt("wrap_value", cx, "errify::WrapErr::wrap_err", err_ty, NoCall)>>

\* apply_context of errify_macro/output.rs: an explicit match on the result
\* of the call, the context bound before it.
apply_context(call, cx, err_ty) ==
    LET api == "errify::WrapErr::wrap_err"
    IN  CASE cx.shape = "Literal" ->
                <<Stmt("let_cx_format", cx, "errify::error", "", NoCall), CallStmt(call),
                  Stmt("wrap_value", cx, api, err_ty, NoCall)>>
          [] cx.shape = "Expr" ->
                <<Stmt("let_cx_expr", cx, "", "", NoCall), CallStmt(call),
                  Stmt("wrap_value", cx, api, err_ty, NoCall)>>
          [] cx.shape = "Closure" ->
                <<Stmt("let_cx_closure", cx, "", "", NoCall), CallStmt(call),
                  Stmt("wrap_closure", cx, api, err_ty, NoCall)>>
          [] cx.shape = "Function" ->
                <<CallStmt(call), Stmt("wrap_path", cx, api, err_ty, NoCall)>>

\* apply_context of the root output.rs: the same statements; wrap_err is
\* called on the function's own error type.
root_apply_context(call, cx, own_ty) ==
    LET api == "errify::WrapErr::wrap_err"
    IN  CASE cx.shape = "Literal" ->
                <<Stmt("let_cx_format", cx, "errify::format_cx", "", NoCall), CallStmt(call),
                  Stmt("wrap_value", cx, api, own_ty, NoCall)>>
          [] cx.shape = "Expr" ->
                <<Stmt("let_cx_expr", cx, "", "", NoCall), CallStmt(call),
                  Stmt("wrap_value", cx, api, own_ty, NoCall)>>
          [] cx.shape = "Closure" ->
                <<Stmt("let_cx_closure", cx, "", "", NoCall), CallStmt(call),
                  Stmt("wrap_closure", cx, api, own_ty, NoCall)>>
          [] cx.shape = "Function" ->
                <<CallStmt(call), Stmt("wrap_path", cx, api, own_ty, NoCall)>>

\* context_provider::anyhow / eyre of errify-macros: the context is bound
\* first, then the backend operation takes the call and the context.
provider_template(backend, call, cx) ==
    LET eager == IF backend = "anyhow" THEN "anyhow::Context::context" ELSE "eyre::WrapErr::wrap_err"
        lazy == IF backend = "anyhow" THEN "anyhow::Context::with_context" ELSE "eyre::WrapErr::wrap_err_with"
        mk == IF backend = "anyhow" THEN "anyhow::anyhow" ELSE "eyre::eyre"
        ty == CanonicalErrTy(backend)
    IN  CASE cx.shape = "Literal" ->
                <<Stmt("let_cx_format", cx, mk, "", NoCall), CallStmt(call),
                  Stmt("wrap_value", cx, eager, ty, NoCall)>>
          [] cx.shape = "Expr" ->
                <<Stmt("let_cx_expr", cx, "", "", NoCall), CallStmt(call),
                  Stmt("wrap_value", cx, eager, ty, NoCall)>>
          [] cx.shape = "Closure" ->
                <<Stmt("let_cx_closure", cx, "", "", NoCall), CallStmt(call),
                  Stmt("wrap_closure", cx, lazy, ty, NoCall)>>
          [] cx.shape = "Function" ->
                <<CallStmt(call), Stmt("wrap_path", cx, lazy, ty, NoCall)>>

\* context_provider::anyhow / eyre of errify_derive: the call and the context
\* are the two arguments of the backend operation, evaluated in that order.
derive_provider_template(backend, call, cx) ==
    LET eager == IF backend = "anyhow" THEN "anyhow::Context::context" ELSE "eyre::WrapErr::wrap_err"
        lazy == IF backend = "anyhow" THEN "anyhow::Context::with_context" ELSE "eyre::WrapErr::wrap_err_with"
        mk == IF backend = "anyhow" THEN "anyhow::anyhow" ELSE "eyre::eyre"
        ty == CanonicalErrTy(backend)
    IN  CASE cx.shape = "Literal" ->
                <<CallStmt(call), Stmt("let_cx_format", cx, mk, "", NoCall),
                  Stmt("wrap_value", cx, eager, ty, NoCall)>>
          [] cx.shape = "Expr" ->
                <<CallStmt(call), Stmt("let_cx_expr", cx, "", "", NoCall),
                  Stmt("wrap_value", cx, eager, ty, NoCall)>>
          [] cx.shape = "Closure" ->
                <<CallStmt(call), Stmt("let_cx_closure", cx, "", "", NoCall),
                  Stmt("wrap_closure", cx, lazy, ty, NoCall)>>
          [] cx.shape = "Function" ->
                <<CallStmt(call), Stmt("wrap_path", cx, lazy, ty, NoCall)>>

\* context_provider::generic: the backend check, then the backend's template.
context_provider_generic(gen, feats, call, cx) ==
    LET b == SelectBackend(feats, IF gen = GDerive THEN DeriveAmbiguousContextProvider
                                  ELSE AmbiguousContextProvider)
    IN  IF ~b.ok THEN [ok |-> FALSE, msg |-> b.msg, stmts |-> <<>>]
        ELSE [ok |-> TRUE, msg |-> "",
              stmts |-> IF gen = GDerive THEN derive_provider_template(b.backend, call, cx)
                        ELSE provider_template(b.backend, call, cx)]

\* ------------------------------------------------------ the output builder
NoInner ==
    [form |-> "none", ident |-> "", constness |-> FALSE, asyncness |-> FALSE,
     unsafety |-> FALSE, abi |-> "", generics |-> NoGenerics, inputs |-> <<>>,
     output |-> NoReturn, block |-> ""]

\* inner_fn of Output::from_ast: `#constness move || { #async_block {
\* #unsafety { #block } } }`.
InnerClosure(f) ==
    [form |-> "closure", ident |-> "", constness |-> f.constness, asyncness |-> f.asyncness,
     unsafety |-> f.unsafety, abi |-> "", generics |-> NoGenerics, inputs |-> <<>>,
     output |-> NoReturn, block |-> f.block]

\* inner_fn of Output::parse_func: a nested function `_<ident>` with the
\* signature and the block of the source.
InnerNestedFn(f) ==
    [form |-> "nested_fn", ident |-> "_" \o f.ident, constness |-> f.constness,
     asyncness |-> f.asyncness, unsafety |-> f.unsafety, abi |-> f.abi,
     generics |-> split_for_impl(f.generics), inputs |-> f.inputs,
     output |-> f.output, block |-> f.block]

\* A faulty call of the closure: never awaited.
ClosureCallUnawaited(f) ==
    [callee |-> "__errify_fn", args |-> <<>>, await |-> FALSE, unsafe_scope |-> FALSE]

\* call_expr of Output::from_ast: the closure is bound and called, awaited
\* when the source is async.
ClosureCall(f) ==
    [callee |-> "__errify_fn", args |-> <<>>, await |-> f.asyncness, unsafe_scope |-> FALSE]

\* call_expr of Output::parse_func: the nested function called with the
\* cleared identifiers, `.await` when async, inside `unsafe { }` when unsafe.
NestedCall(inner, outer_args) ==
    [callee |-> inner.ident, args |-> call_inputs(outer_args), await |-> inner.asyncness,
     unsafe_scope |-> inner.unsafety]

\* A faulty return type: the two generic arguments in the wrong order.
ResultOfSwapped(segs, ok, err) == PathTy(segs, TRUE, <<TypeArg(err), ok>>)

\* The emitted return type: `-> <segs>::Result<#ok, #err>`.
ResultOf(segs, ok, err) == PathTy(segs, TRUE, <<ok, TypeArg(err)>>)

\* The error type the source declares (its second generic argument).
OwnErrTy(ret) ==
    IF ret.arrow /\ Len(ret.gargs) >= 2 THEN ret.gargs[2].name ELSE ""

NotReceiver(a) == a.kind # "receiver"

\* A faulty outer function: the receiver is special-cased and left out of the
\* emitted argument list.
OuterFnWithoutReceiver(f, ok, err_ty, inner, stmts) ==
    [attrs |-> f.attrs, vis |-> "", defaultness |-> f.defaultness, constness |-> f.constness,
     asyncness |-> f.asyncness, unsafety |-> f.unsafety, abi |-> f.abi, ident |-> f.ident,
     generics |-> split_for_impl(f.generics), inputs |-> SelectSeq(f.inputs, NotReceiver),
     output |-> ResultOf(<<"errify", "__private", "Result">>, ok, err_ty),
     inner |-> inner, stmts |-> stmts]

\* outer_fn of Output::from_ast (errify_macro): attributes, defaultness,
\* qualifiers, ABI, name, generics and arguments of the source; the new
\* return type; the context expression as the block.
OuterFn(f, ok, err_ty, inner, stmts) ==
    [attrs |-> f.attrs, vis |-> "", defaultness |-> f.defaultness, constness |-> f.constness,
     asyncness |-> f.asyncness, unsafety |-> f.unsafety, abi |-> f.abi, ident |-> f.ident,
     generics |-> split_for_impl(f.generics), inputs |-> f.inputs,
     output |-> ResultOf(<<"errify", "__private", "Result">>, ok, err_ty),
     inner |-> inner, stmts |-> stmts]

\* outer_fn of the root Output::from_ast: the visibility is re-emitted too,
\* and the return type is the source's.
RootOuterFn(f, inner, stmts) ==
    [attrs |-> f.attrs, vis |-> f.vis, defaultness |-> f.defaultness, constness |-> f.constness,
     asyncness |-> f.asyncness, unsafety |-> f.unsafety, abi |-> f.abi, ident |-> f.ident,
     generics |-> split_for_impl(f.generics), inputs |-> f.inputs,
     output |-> f.output, inner |-> inner, stmts |-> stmts]

\* outer_fn of Output::parse_func: qualifiers, ABI, name and generics of the
\* source, the cleared arguments, the new return type.
ContextOuterFn(f, outer_args, ok, err_ty, inner, stmts) ==
    [attrs |-> <<>>, vis |-> "", defaultness |-> FALSE, constness |-> f.constness,
     asyncness |-> f.asyncness, unsafety |-> f.unsafety, abi |-> f.abi, ident |-> f.ident,
     generics |-> split_for_impl(f.generics), inputs |-> outer_args,
     output |-> ResultOf(<<"core", "result", "Result">>, ok, err_ty),
     inner |-> inner, stmts |-> stmts]

\* ------------------------------------------------------- one expansion
\* The statements of one expansion, in the order the code runs them.
Pipeline(gen) ==
    CASE gen = GErrify ->
            <<"parse_args", "parse_input", "inner_fn", "call_expr", "err_ty",
              "apply_context", "outer_fn", "emit">>
      [] gen = GRoot ->
            <<"parse_args", "parse_input", "inner_fn", "call_expr",
              "apply_context", "outer_fn", "emit">>
      [] gen \in ContextGens ->
            <<"parse_args", "parse_input", "dispatch", "inner_fn", "clear_inputs",
              "call_expr", "cx_data", "context_provider", "outer_fn", "emit">>

After(gen, stage) ==
    LET p == Pipeline(gen)
        i == CHOOSE k \in 1..Len(p) : p[k] = stage
    IN  IF i < Len(p) THEN p[i + 1] ELSE "done"

IdleExp ==
    [pc |-> "idle", entry |-> [gen |-> GErrify, lazy |-> FALSE], args |-> <<>>,
     item |-> OtherItem, parsed |-> NoArgs, kind |-> "", skipped |-> {}, inner |-> NoInner,
     outer_args |-> <<>>, call |-> NoCall, err_ty |-> "", stmts |-> <<>>,
     out |-> <<>>, diag |-> "", outcome |-> "", trail |-> <<>>]

IdleRun ==
    [active |-> FALSE, arg |-> 0, pc |-> 0, cx |-> <<>>, bound |-> FALSE,
     res |-> <<>>, ret |-> <<>>, log |-> <<>>]

\* A stage that returned Ok: on to the next statement.
Adv(e, stage) == [e EXCEPT !.pc = After(e.entry.gen, stage), !.trail = Append(@, stage)]

\* A stage that returned Err: the `?` leaves the builder with the diagnostic.
Fail(e, stage, msg) == [e EXCEPT !.pc = "failed", !.diag = msg, !.trail = Append(@, stage)]

\* A faulty entry: the values of the invocation before are still there when
\* the next one starts.
NewExpansionStale(entry, toks, item) ==
    [exp EXCEPT !.pc = "parse_args", !.entry = entry, !.args = toks, !.item = item,
                !.trail = <<>>, !.outcome = ""]

\* The values an invocation starts with: its arguments and nothing else.
NewExpansion(entry, toks, item) ==
    [IdleExp EXCEPT !.pc = "parse_args", !.entry = entry, !.args = toks, !.item = item]

\* The attribute macro is applied: errify(args, input) is entered.
Invoke(entry, toks, item) ==
    /\ exp.pc = "idle"
    /\ exp' = NewExpansion(entry, toks, item)
    /\ UNCHANGED <<features, run>>

\* The attribute macro is applied again, to another item of the crate, when
\* the invocation before has returned.
InvokeNext(entry, toks, item) ==
    /\ exp.pc = "done"
    /\ ~run.active
    /\ exp' = NewExpansion(entry, toks, item)
    /\ UNCHANGED <<features, run>>

\* syn::parse2::<...Args>(args)?
ParseArgs ==
    /\ exp.pc = "parse_args"
    /\ \E r \in {ParseMacroArgs(exp.entry, exp.args)} :
           exp' = IF r.ok THEN [Adv(exp, "parse_args") EXCEPT !.parsed = r.val]
                  ELSE Fail(exp, "parse_args", r.msg)
    /\ UNCHANGED <<features, run>>

\* syn::parse2::<Input>(input)?
ParseInput ==
    /\ exp.pc = "parse_input"
    /\ \E r \in {ParseInputOf(exp.entry, exp.item)} :
           exp' = IF r.ok THEN [Adv(exp, "parse_input") EXCEPT !.kind = r.kind, !.skipped = r.skipped]
                  ELSE [Fail(exp, "parse_input", r.msg) EXCEPT !.skipped = r.skipped]
    /\ UNCHANGED <<features, run>>

\* Output::parse of context_macro: parse_method and parse_impl are
\* unimplemented!(), which panics.
Dispatch ==
    /\ exp.pc = "dispatch"
    /\ exp' = IF exp.kind = "Function" THEN Adv(exp, "dispatch")
              ELSE [exp EXCEPT !.pc = "done", !.outcome = "panic", !.trail = Append(@, "dispatch")]
    /\ UNCHANGED <<features, run>>

BuildInnerFn ==
    /\ exp.pc = "inner_fn"
    /\ exp' = [Adv(exp, "inner_fn") EXCEPT
                  !.inner = IF exp.entry.gen \in ContextGens THEN InnerNestedFn(exp.item)
                            ELSE InnerClosure(exp.item)]
    /\ UNCHANGED <<features, run>>

\* utils::clear_inputs(&input.sig.inputs)?
ClearInputs ==
    /\ exp.pc = "clear_inputs"
    /\ \E r \in {clear_inputs(exp.item.inputs)} :
           exp' = IF r.ok THEN [Adv(exp, "clear_inputs") EXCEPT !.outer_args = r.args]
                  ELSE Fail(exp, "clear_inputs", r.msg)
    /\ UNCHANGED <<features, run>>

\* call_expr: from_ast refuses ReturnType::Default here; parse_func builds
\* the forwarding call.
BuildCallExpr ==
    /\ exp.pc = "call_expr"
    /\ exp' = IF exp.entry.gen \in ContextGens
              THEN [Adv(exp, "call_expr") EXCEPT !.call = NestedCall(exp.inner, exp.outer_args)]
              ELSE IF ~exp.item.output.arrow
              THEN Fail(exp, "call_expr", "Result<...> only supported")
              ELSE [Adv(exp, "call_expr") EXCEPT !.call = ClosureCall(exp.item)]
    /\ UNCHANGED <<features, run>>

\* cx_data of parse_func: Args::None is refused.
CxData ==
    /\ exp.pc = "cx_data"
    /\ exp' = IF exp.parsed.cx.shape = "None"
              THEN Fail(exp, "cx_data", "The macro requires arguments")
              ELSE Adv(exp, "cx_data")
    /\ UNCHANGED <<features, run>>

\* err_ty of from_ast (errify_macro).
ErrTy ==
    /\ exp.pc = "err_ty"
    /\ \E r \in {SelectErrTy(exp.parsed.err_ty, features)} :
           exp' = IF r.ok THEN [Adv(exp, "err_ty") EXCEPT !.err_ty = r.ty]
                  ELSE Fail(exp, "err_ty", r.msg)
    /\ UNCHANGED <<features, run>>

\* context_provider::generic(call_expr, cx_data)?
ContextProvider ==
    /\ exp.pc = "context_provider"
    /\ \E r \in {context_provider_generic(exp.entry.gen, features, exp.call, exp.parsed.cx)} :
           exp' = IF r.ok THEN [Adv(exp, "context_provider") EXCEPT !.stmts = r.stmts]
                  ELSE Fail(exp, "context_provider", r.msg)
    /\ UNCHANGED <<features, run>>

\* apply_context(&call_expr, &args.cx, ..) of errify_macro and of the root.
ApplyContext ==
    /\ exp.pc = "apply_context"
    /\ exp' = [Adv(exp, "apply_context") EXCEPT
                  !.stmts = IF exp.entry.gen = GErrify
                            THEN apply_context(exp.call, exp.parsed.cx, exp.err_ty)
                            ELSE root_apply_context(exp.call, exp.parsed.cx,
                                                    OwnErrTy(exp.item.output))]
    /\ UNCHANGED <<features, run>>

\* The outer_fn block of an entry point's builder.
BuildOuter(e, feats) ==
    LET f == e.item
        ok == ok_ty(f.output)
        ep == error_provider_generic(feats)
    IN  CASE e.entry.gen = GRoot ->
                [ok |-> TRUE, msg |-> "", out |-> <<RootOuterFn(f, e.inner, e.stmts)>>]
          [] e.entry.gen = GErrify ->
                IF ~ok.ok THEN [ok |-> FALSE, msg |-> ok.msg, out |-> <<>>]
                ELSE [ok |-> TRUE, msg |-> "",
                      out |-> <<OuterFn(f, ok.ty, e.err_ty, e.inner, e.stmts)>>]
          [] e.entry.gen \in ContextGens ->
                IF ~ok.ok THEN [ok |-> FALSE, msg |-> ok.msg, out |-> <<>>]
                ELSE IF ~ep.ok THEN [ok |-> FALSE, msg |-> ep.msg, out |-> <<>>]
                ELSE [ok |-> TRUE, msg |-> "",
                      out |-> <<ContextOuterFn(f, e.outer_args, ok.ty, ep.ty, e.inner, e.stmts)>>]

BuildOuterFn ==
    /\ exp.pc = "outer_fn"
    /\ \E r \in {BuildOuter(exp, features)} :
           exp' = IF r.ok THEN [Adv(exp, "outer_fn") EXCEPT !.out = r.out]
                  ELSE Fail(exp, "outer_fn", r.msg)
    /\ UNCHANGED <<features, run>>

\* The proc-macro entry point: Ok(tokens) => tokens, Err(diag) =>
\* diag.emit_as_expr_tokens().
Emit ==
    /\ exp.pc \in {"emit", "failed"}
    /\ exp' = IF exp.pc = "emit"
              THEN [exp EXCEPT !.pc = "done", !.outcome = "tokens", !.trail = Append(@, "emit")]
              ELSE [exp EXCEPT !.pc = "done", !.outcome = "diag", !.out = <<>>]
    /\ UNCHANGED <<features, run>>

\* The expansion is over and its values are dropped.
Discard ==
    /\ exp.pc = "done"
    /\ ~run.active
    /\ exp' = IdleExp
    /\ UNCHANGED <<features, run>>

\* ------------------------------------------- running the emitted function
Ok(v) == [tag |-> "Ok", val |-> v, cause |-> "", context |-> <<>>, ty |-> "", api |-> ""]

\* The error of the original body.
BodyErr(v) == "CustomError(" \o ToString(v) \o ")"

Err(e) == [tag |-> "Err", val |-> 0, cause |-> e, context |-> <<>>, ty |-> "CustomError", api |-> ""]

\* What the original body returns for `arg` = v.
BodyResult(block, v) ==
    IF block = "ok" \/ (block = "odd" /\ v % 2 = 0) THEN Ok(v) ELSE Err(BodyErr(v))

\* The wrap operation: the original error as the cause, the rendered
\* context beside it.
Wrap(e, c, ty, api) ==
    [tag |-> "Err", val |-> 0, cause |-> e, context |-> <<c>>, ty |-> ty, api |-> api]

\* Display of an expression's value: a string literal is its text, another
\* literal the value it builds, an identifier the function's argument.
EvalExpr(x, v) ==
    CASE x.e = "str" -> "text"
      [] x.e = "num" -> "CustomError(2)"
      [] x.e = "id" -> ToString(v)
      [] OTHER -> "closure"

\* The format string has the named capture {arg} and one {} per argument.
RECURSIVE FormatArgs(_, _)
FormatArgs(args, v) ==
    IF Len(args) = 0 THEN ""
    ELSE " = " \o EvalExpr(args[1], v) \o FormatArgs(Tail(args), v)

Format(args, v) == "literal " \o ToString(v) \o FormatArgs(args, v)

\* The result of calling the zero-argument closure: its body's value.
CallClosure(x, v) == IF Len(x.body) > 0 THEN EvalExpr(x.body[1], v) ELSE "closure"

\* The result of calling the context function.
CallPath(x, v) == "CustomError(2)"

EmittedFn == exp.out[1]

CurStmt == EmittedFn.stmts[run.pc]

Running == run.active /\ run.pc <= Len(EmittedFn.stmts)

\* The emitted function is called with arg = v.
Call(v) ==
    /\ exp.pc = "done"
    /\ exp.outcome = "tokens"
    /\ ~run.active
    /\ run' = [IdleRun EXCEPT !.active = TRUE, !.arg = v, !.pc = 1]
    /\ UNCHANGED <<features, exp>>

\* let __errify_cx = <the formatted literal>;
LetCxFormat ==
    /\ Running
    /\ CurStmt.op = "let_cx_format"
    /\ run' = [run EXCEPT !.cx = <<Format(CurStmt.cx.args, run.arg)>>,
                          !.log = Append(@, "cx"), !.pc = @ + 1]
    /\ UNCHANGED <<features, exp>>

\* let __errify_cx = <the expression>;
LetCxExpr ==
    /\ Running
    /\ CurStmt.op = "let_cx_expr"
    /\ run' = [run EXCEPT !.cx = <<EvalExpr(CurStmt.cx.expr, run.arg)>>,
                          !.log = Append(@, "cx"), !.pc = @ + 1]
    /\ UNCHANGED <<features, exp>>

\* let __errify_cx = <the closure>;
LetCxClosure ==
    /\ Running
    /\ CurStmt.op = "let_cx_closure"
    /\ run' = [run EXCEPT !.bound = TRUE, !.pc = @ + 1]
    /\ UNCHANGED <<features, exp>>

\* The inner callable runs the original body.
CallInner ==
    /\ Running
    /\ CurStmt.op = "call"
    /\ run' = [run EXCEPT !.res = <<BodyResult(EmittedFn.inner.block, run.arg)>>,
                          !.log = @ \o <<"body_start", "body_end">>, !.pc = @ + 1]
    /\ UNCHANGED <<features, exp>>

\* A faulty wrap: the context takes the place of the cause.
WrapResultSwapped(st, r, cx, v) ==
    IF r.tag = "Ok" THEN Ok(r.val)
    ELSE CASE st.op = "wrap_value" -> Wrap(cx[1], r.cause, st.ty, st.api)
           [] st.op = "wrap_closure" -> Wrap(CallClosure(st.cx.expr, v), r.cause, st.ty, st.api)
           [] st.op = "wrap_path" -> Wrap(CallPath(st.cx.expr, v), r.cause, st.ty, st.api)

\* The value a wrap statement returns for the result r of the call.
WrapResult(st, r, cx, v) ==
    IF r.tag = "Ok" THEN Ok(r.val)
    ELSE CASE st.op = "wrap_value" -> Wrap(r.cause, cx[1], st.ty, st.api)
           [] st.op = "wrap_closure" -> Wrap(r.cause, CallClosure(st.cx.expr, v), st.ty, st.api)
           [] st.op = "wrap_path" -> Wrap(r.cause, CallPath(st.cx.expr, v), st.ty, st.api)

\* A faulty lazy wrap: the callable is called whatever the result is.
WrapEventsAlways(st, r) ==
    IF st.op = "wrap_value" THEN (IF r.tag = "Ok" THEN <<>> ELSE <<"wrap">>)
    ELSE IF r.tag = "Ok" THEN <<"callable">>
    ELSE <<"callable", "wrap">>

\* A faulty wrap: the context is applied to Ok and to Err alike.
WrapEventsUnconditional(st, r) ==
    IF st.op = "wrap_value" THEN <<"wrap">> ELSE <<"callable", "wrap">>

\* What a wrap statement does, in order, for the result r of the call.
WrapEvents(st, r) ==
    IF r.tag = "Ok" THEN <<>>
    ELSE IF st.op = "wrap_value" THEN <<"wrap">>
    ELSE <<"callable", "wrap">>

\* match __errify_res { Ok(v) => Ok(v), Err(err) => Err(wrap_err(err, ..)) },
\* or the backend operation doing the same.
MatchResult ==
    /\ Running
    /\ CurStmt.op \in {"wrap_value", "wrap_closure", "wrap_path"}
    /\ run' = [run EXCEPT !.ret = <<WrapResult(CurStmt, run.res[1], run.cx, run.arg)>>,
                          !.log = @ \o WrapEvents(CurStmt, run.res[1]), !.pc = @ + 1]
    /\ UNCHANGED <<features, exp>>

\* The emitted function has returned to its caller.
Return ==
    /\ run.active
    /\ run.pc > Len(EmittedFn.stmts)
    /\ run' = IdleRun
    /\ UNCHANGED <<features, exp>>

\* --------------------------------------------------------- specifications
\* The macro arguments the expansions are run on.
ArgSamples ==
    {<<>>, <<"str">>, <<"str", ",">>, <<"str", ",", "id">>, <<"str", ",", "id", ",", "num">>,
     <<"num">>, <<"id">>, <<"|", "|", "str">>, <<"|", "|", "id">>, <<"|", "id", "|", "id">>,
     <<"id", ",", "str">>, <<"id", ",", "str", ",", "id">>, <<"id", ",", "id">>,
     <<"id", ",", "|", "|", "id">>, <<"str", "id">>, <<"id", "id">>}

Init ==
    /\ features \in SUBSET Backends
    /\ exp = IdleExp
    /\ run = IdleRun

Next ==
    \/ \E entry \in Entries, toks \in ArgSamples, item \in Items : Invoke(entry, toks, item)
    \/ ParseArgs
    \/ ParseInput
    \/ Dispatch
    \/ BuildInnerFn
    \/ ClearInputs
    \/ BuildCallExpr
    \/ CxData
    \/ ErrTy
    \/ ContextProvider
    \/ ApplyContext
    \/ BuildOuterFn
    \/ Emit
    \/ Discard
    \/ \E v \in ArgValues : Call(v)
    \/ LetCxFormat
    \/ LetCxExpr
    \/ LetCxClosure
    \/ CallInner
    \/ MatchResult
    \/ Return

Spec == Init /\ [][Next]_vars

\* The argument grammar alone, on every token sequence up to MaxArgTokens.
AllArgTokens == UNION {[1..k -> Tokens] : k \in 0..MaxArgTokens}

\* The item is one no target parser accepts: an expansion ends at the
\* argument parse or at the target parse.
NextArgs ==
    \/ \E entry \in Entries, toks \in AllArgTokens : Invoke(entry, toks, OtherItem)
    \/ ParseArgs
    \/ ParseInput
    \/ Emit
    \/ Discard

SpecArgs == Init /\ [][NextArgs]_vars

\* Invocations one after the other, each starting when the one before has
\* returned, on a few arguments and items that end in every way an expansion
\* can end.
SeqArgs == {<<"str">>, <<"|", "|", "id">>, <<"id", "id">>}

SeqItems == {BaseFn("err"), MethodFn, I32Fn, OtherItem}

NextSeq ==
    \/ \E entry \in Entries, toks \in SeqArgs, item \in SeqItems : Invoke(entry, toks, item)
    \/ \E entry \in Entries, toks \in SeqArgs, item \in SeqItems : InvokeNext(entry, toks, item)
    \/ ParseArgs
    \/ ParseInput
    \/ Dispatch
    \/ BuildInnerFn
    \/ ClearInputs
    \/ BuildCallExpr
    \/ CxData
    \/ ErrTy
    \/ ContextProvider
    \/ ApplyContext
    \/ BuildOuterFn
    \/ Emit

SpecSeq == Init /\ [][NextSeq]_vars

\* The utilities alone: parse_func of context_macro stands before
\* clear_inputs, on a function whose argument list or whose return type is
\* drawn from the bounded sets.
UtilsItems ==
    {[BaseFn("ok") EXCEPT !.inputs = ins] : ins \in InputLists}
        \cup {[BaseFn("ok") EXCEPT !.output = ret] : ret \in ReturnTypes}

UtilsEntry == [gen |-> GContext, lazy |-> FALSE]

InitUtils ==
    /\ features \in SUBSET Backends
    /\ run = IdleRun
    /\ \E item \in UtilsItems :
           exp = [IdleExp EXCEPT
                     !.pc = "clear_inputs", !.entry = UtilsEntry, !.args = <<"str">>,
                     !.item = item, !.parsed = ParseMacroArgs(UtilsEntry, <<"str">>).val,
                     !.kind = "Function", !.inner = InnerNestedFn(item),
                     !.trail = <<"parse_args", "parse_input", "dispatch", "inner_fn">>]

NextUtils ==
    \/ ClearInputs
    \/ BuildCallExpr
    \/ CxData
    \/ ContextProvider
    \/ BuildOuterFn
    \/ Emit
    \/ Discard

SpecUtils == InitUtils /\ [][NextUtils]_vars

\* -------------------------------------------------------------- properties
\* How often x occurs in the sequence s.
Count(s, x) == Cardinality({i \in DOMAIN s : s[i] = x})

\* Every y in s has an x somewhere before it.
Preceded(s, x, y) == \A j \in DOMAIN s : s[j] = y => \E i \in 1..(j - 1) : s[i] = x

\* The expansion ended with the rewritten item.
Expanded == exp.pc = "done" /\ exp.outcome = "tokens"

\* The rewritten function has run to the end of its body and not yet returned.
Finished == run.active /\ run.pc > Len(EmittedFn.stmts)

\* What the original body returns for the argument of the running call.
OriginalResult == BodyResult(exp.item.block, run.arg)

Shape == exp.parsed.cx.shape

LazyShape == Shape \in {"Closure", "Function"}

EagerShape == Shape \in {"Literal", "Expr"}

\* The context the arguments ask for, for the argument of the running call.
ExpectedCx ==
    CASE Shape = "Literal" -> Format(exp.parsed.cx.args, run.arg)
      [] Shape = "Expr" -> EvalExpr(exp.parsed.cx.expr, run.arg)
      [] Shape = "Closure" -> CallClosure(exp.parsed.cx.expr, run.arg)
      [] Shape = "Function" -> CallPath(exp.parsed.cx.expr, run.arg)

\* C1: with a closure or function-path context, during every call of the
\* rewritten function the callable is called at most once, only after the
\* original body has returned, and only when it returned Err.
C1_LazyCallable ==
    (run.active /\ LazyShape) =>
        /\ Count(run.log, "callable") <= 1
        /\ Preceded(run.log, "body_end", "callable")
        /\ Count(run.log, "callable") > 0 => (run.res # <<>> /\ run.res[1].tag = "Err")

\* A lazy context whose callable was called after a failed body.
C1_Witness ==
    /\ Finished /\ LazyShape
    /\ OriginalResult.tag = "Err"
    /\ run.log = <<"body_start", "body_end", "callable", "wrap">>

\* C2 as stated: when the original body returns Ok(v) the rewritten function
\* returns Ok(v) and no context is constructed during the call, for all four
\* shapes.
C2_NoContextOnOk ==
    (Finished /\ OriginalResult.tag = "Ok") =>
        /\ run.ret = <<OriginalResult>>
        /\ Count(run.log, "cx") = 0
        /\ Count(run.log, "callable") = 0

\* C2: when the original body returns Ok(v) the rewritten function returns
\* Ok(v); nothing is wrapped and no callable is called; a closure or
\* function-path context constructs nothing, a literal or expression context
\* is constructed once and dropped.
C2_OkPreserved ==
    (Finished /\ OriginalResult.tag = "Ok") =>
        /\ run.ret = <<OriginalResult>>
        /\ Count(run.log, "wrap") = 0
        /\ Count(run.log, "callable") = 0
        /\ Count(run.log, "cx") = IF EagerShape THEN 1 ELSE 0

\* A successful call that constructed its literal context all the same.
C2_Witness ==
    /\ Finished /\ Shape = "Literal"
    /\ run.ret = <<Ok(run.arg)>>
    /\ Count(run.log, "cx") = 1

\* C3: when the original body returns Err(e) the rewritten function returns
\* the wrap of e, as the cause, with the context of the requested shape, and
\* the wrap operation is applied once.
C3_ErrWrappedOnce ==
    (Finished /\ OriginalResult.tag = "Err") =>
        /\ Len(run.ret) = 1
        /\ run.ret[1].tag = "Err"
        /\ run.ret[1].cause = BodyErr(run.arg)
        /\ run.ret[1].context = <<ExpectedCx>>
        /\ Count(run.log, "wrap") = 1

\* A failed call whose literal, formatted with an argument, is the context.
C3_Witness ==
    /\ Finished /\ Shape = "Literal" /\ Len(exp.parsed.cx.args) > 0
    /\ OriginalResult.tag = "Err"
    /\ run.ret[1].context = <<Format(exp.parsed.cx.args, run.arg)>>

\* C4 as stated: a literal or expression context is constructed once per call
\* and before the original body starts, whether the body succeeds or fails,
\* and it is attached only when the body fails.
C4_EagerBeforeBody ==
    (run.active /\ EagerShape) =>
        /\ Count(run.log, "cx") <= 1
        /\ Preceded(run.log, "cx", "body_start")
        /\ Finished => Count(run.log, "cx") = 1
        /\ Finished => (Count(run.log, "wrap") = 1 <=> OriginalResult.tag = "Err")

\* C5 as stated: a successful expansion emits an item with the name,
\* visibility, generics, constness, asyncness, unsafety, ABI and attributes of
\* the source item.
C5_SignaturePreserved ==
    Expanded =>
        /\ EmittedFn.ident = exp.item.ident
        /\ EmittedFn.vis = exp.item.vis
        /\ Len(EmittedFn.generics.params) = Len(exp.item.generics.params)
        /\ \A i \in DOMAIN exp.item.generics.params :
               EmittedFn.generics.params[i].name = exp.item.generics.params[i].name
        /\ EmittedFn.generics.where = exp.item.generics.where
        /\ EmittedFn.constness = exp.item.constness
        /\ EmittedFn.asyncness = exp.item.asyncness
        /\ EmittedFn.unsafety = exp.item.unsafety
        /\ EmittedFn.abi = exp.item.abi
        /\ EmittedFn.attrs = exp.item.attrs

\* The error type the arguments and the features ask for.
ExpectedErrTy ==
    IF Len(exp.parsed.err_ty) > 0 THEN exp.parsed.err_ty[1]
    ELSE IF features = {"anyhow"} THEN AnyhowError
    ELSE IF features = {"eyre"} THEN EyreReport
    ELSE "none"

\* ret is Result<T, E'>: T the first generic argument of the source return
\* type, E' the expected error type.
IsExpectedResult(ret) ==
    /\ ret.arrow /\ ret.kind = "path" /\ ret.angle
    /\ ret.segs[Len(ret.segs)] = "Result"
    /\ Len(exp.item.output.gargs) > 0
    /\ ret.gargs = <<exp.item.output.gargs[1], TypeArg(ExpectedErrTy)>>

\* C6 as stated: every successful expansion emits the return type
\* Result<T, E'>.
C6_ReturnTypeAlways == Expanded => IsExpectedResult(EmittedFn.output)

\* C6: a successful expansion by errify_macro, context_macro or errify_derive
\* emits the return type Result<T, E'>; a successful expansion by the root
\* from_ast emits the source return type unchanged.
C6_ReturnType ==
    Expanded =>
        IF exp.entry.gen = GRoot THEN EmittedFn.output = exp.item.output
        ELSE IsExpectedResult(EmittedFn.output)

\* An expansion under eyre alone that emitted Result<i32, eyre::Report>.
C6_Witness ==
    /\ Expanded /\ exp.entry.gen = GErrify /\ features = {"eyre"}
    /\ EmittedFn.output.gargs = <<TypeArg("i32"), TypeArg(EyreReport)>>

\* The expansion went through a backend check.
ReachedBackendCheck ==
    \E i \in DOMAIN exp.trail : exp.trail[i] \in {"err_ty", "context_provider"}

OverrideGiven ==
    /\ exp.entry.gen = GErrify
    /\ Len(exp.args) >= 2 /\ exp.args[1] = "id" /\ exp.args[2] = ","

\* C8 as stated: without an override an expansion succeeds only with exactly
\* one backend enabled; with none and with both it ends in a
\* configuration-error diagnostic; with one the backend check never fails.
C8_ExactlyOneAlways ==
    (exp.pc = "done" /\ ~OverrideGiven) =>
        /\ exp.outcome = "tokens" => Cardinality(features) = 1
        /\ Cardinality(features) # 1 => (exp.outcome = "diag" /\ exp.diag \in ConfigDiags)
        /\ Cardinality(features) = 1 => exp.diag \notin ConfigDiags

\* C8: without an override an expansion by errify_macro, context_macro or
\* errify_derive succeeds only with exactly one backend enabled; with none
\* and with both, one that reaches a backend check ends in a
\* configuration-error diagnostic; with one the backend check never fails.
C8_ExactlyOne ==
    (exp.pc = "done" /\ ~OverrideGiven /\ exp.entry.gen # GRoot) =>
        /\ exp.outcome = "tokens" => Cardinality(features) = 1
        /\ (Cardinality(features) # 1 /\ ReachedBackendCheck) =>
               (exp.outcome = "diag" /\ exp.diag \in ConfigDiags)
        /\ Cardinality(features) = 1 => exp.diag \notin ConfigDiags

\* An expansion with no backend enabled that ended in the diagnostic of the
\* context provider.
C8_Witness ==
    /\ exp.pc = "done" /\ features = {} /\ exp.entry.gen = GContext
    /\ ReachedBackendCheck
    /\ exp.diag = NoBackend

\* The tokens after the override's comma.
ContextTokens == SubSeq(exp.args, 3, Len(exp.args))

\* The standard context grammar accepts the tokens after the comma.
ContextParses == Parse2(PlainParse(exp.entry, ContextTokens), ContextTokens).ok

\* The annotated item is one the builder accepts.
TargetAccepted ==
    /\ ParseInputOf(exp.entry, exp.item).ok
    /\ ok_ty(exp.item.output).ok

\* C9 as stated: an override given as the first argument takes precedence:
\* the expansion succeeds whatever backends are enabled, both included, and
\* the emitted error type is the given type.
C9_OverridePrecedence ==
    (exp.pc = "done" /\ OverrideGiven /\ ContextParses /\ TargetAccepted) =>
        /\ exp.outcome = "tokens"
        /\ EmittedFn.output.gargs[2] = TypeArg("id")

\* C10 as stated: arguments that start with a type and a comma are accepted
\* as a whole: the type is the override and the tokens after the comma are
\* the context of the standard grammar.
C10_OverrideAccepted ==
    (OverrideGiven /\ ContextParses /\ Len(exp.trail) >= 1) =>
        /\ exp.trail[1] = "parse_args"
        /\ ~(exp.diag = "unexpected token")
        /\ exp.parsed.err_ty = <<"id">>
        /\ exp.parsed.cx = PlainParse(exp.entry, ContextTokens).val.cx

\* The argument parse of the expansion is over.
ArgsParsed == Len(exp.trail) >= 1

\* The argument parse of the expansion failed.
ArgsRejected == exp.trail = <<"parse_args">> /\ exp.pc \in {"failed", "done"}

\* What the standard context grammar makes of the complete arguments.
WholeInputParse == Parse2(PlainParse(exp.entry, exp.args), exp.args)

\* C11: when the arguments of errify / errify_with do not start with a type
\* and a comma, the standard context grammar is applied to the complete
\* token sequence: the arguments are accepted exactly when it accepts them,
\* with its context and no override type, and rejected with its diagnostic
\* otherwise.
C11_FallbackWholeInput ==
    (exp.entry.gen = GErrify /\ ~OverrideGiven /\ ArgsParsed) =>
        IF WholeInputParse.ok
        THEN /\ ~ArgsRejected
             /\ exp.parsed.cx = WholeInputParse.val.cx
             /\ exp.parsed.err_ty = <<>>
        ELSE /\ ArgsRejected
             /\ exp.diag = WholeInputParse.msg

\* A bare function path given to errify_with: a type without a comma, taken
\* whole as the function context.
C11_Witness ==
    /\ exp.entry = [gen |-> GErrify, lazy |-> TRUE]
    /\ exp.args = <<"id">>
    /\ ArgsParsed /\ ~ArgsRejected
    /\ exp.parsed = [err_ty |-> <<>>, cx |-> FunctionCx(Atom("id"))]

\* The declared return type is not Result-shaped: none at all, or a type
\* without angle-bracketed generic arguments.
NonResultReturn == ~exp.item.output.arrow \/ ~exp.item.output.angle

\* C12 as stated: an item whose declared return type is not Result-shaped
\* never expands successfully.
C12_NonResultNeverExpands ==
    (exp.pc = "done" /\ NonResultReturn) => exp.outcome # "tokens"

\* The builder of the entry point is part of the sources (the output.rs of
\* errify_derive is not).
BuilderInSources == exp.entry.gen # GDerive

\* C13 as stated, for the builders in the sources: with empty arguments on
\* the eager entry point the expansion always ends in a diagnostic: it never
\* succeeds and the transformer never panics, whatever the annotated item is.
C13_EmptyArgsDiagnostic ==
    (exp.pc = "done" /\ BuilderInSources /\ ~exp.entry.lazy /\ exp.args = <<>>) =>
        exp.outcome = "diag"

\* The arguments are a string literal alone, or a string literal, a comma and
\* comma-separated expressions.
WellFormedLiteral ==
    /\ Len(exp.args) >= 1 /\ exp.args[1] = "str"
    /\ Len(exp.args) > 1 => (exp.args[2] = "," /\ ParseTerminated(exp.args, 3).ok)

\* The arguments are one expression, not a string literal, and nothing else.
SingleExpression ==
    /\ Len(exp.args) >= 1 /\ exp.args[1] # "str"
    /\ ParseExpr(exp.args, 1).ok
    /\ ParseExpr(exp.args, 1).pos > Len(exp.args)

\* C14 as stated: on the eager entry points, accepted arguments that start
\* with a string literal are the Literal shape, whose arguments are the
\* comma-separated expressions after an optional comma (none without a
\* comma); a literal with well-formed arguments is accepted; a single
\* expression that is no string literal is the expression shape.
C14_EagerGrammar ==
    (~exp.entry.lazy /\ ArgsParsed) =>
        /\ (Len(exp.args) >= 1 /\ exp.args[1] = "str" /\ ~ArgsRejected) =>
               /\ exp.parsed.cx.shape = "Literal"
               /\ Len(exp.args) = 1 => exp.parsed.cx.args = <<>>
               /\ Len(exp.args) > 1 =>
                      (exp.args[2] = "," /\ exp.parsed.cx.args = ParseTerminated(exp.args, 3).val)
        /\ WellFormedLiteral => ~ArgsRejected
        /\ SingleExpression =>
               (~ArgsRejected /\ exp.parsed.cx = ExprCx(ParseExpr(exp.args, 1).val))

\* The arguments start with the token pair | |.
StartsWithClosure == Len(exp.args) >= 2 /\ exp.args[1] = "|" /\ exp.args[2] = "|"

\* C15: on the lazy entry points, arguments that start with | | are accepted
\* exactly when they are one zero-argument closure, and give the closure
\* context; other arguments are accepted exactly when they are one plain
\* path, and give the function context; nothing else is accepted, so the
\* context is never a literal, an expression or empty.
C15_LazyGrammar ==
    (exp.entry.lazy /\ ~OverrideGiven /\ ArgsParsed) =>
        IF StartsWithClosure
        THEN IF ParseExpr(exp.args, 1).ok /\ ParseExpr(exp.args, 1).pos > Len(exp.args)
             THEN /\ ~ArgsRejected
                  /\ exp.parsed.cx = ClosureCx(ParseExpr(exp.args, 1).val)
                  /\ exp.parsed.cx.expr.params = 0
             ELSE ArgsRejected
        ELSE IF exp.args = <<"id">>
             THEN ~ArgsRejected /\ exp.parsed.cx = FunctionCx(Atom("id"))
             ELSE ArgsRejected

\* with_context given a zero-argument closure.
C15_Witness ==
    /\ exp.entry = [gen |-> GContext, lazy |-> TRUE]
    /\ exp.args = <<"|", "|", "str">>
    /\ ArgsParsed /\ ~ArgsRejected
    /\ exp.parsed.cx.shape = "Closure"

\* The context shape read from the start of the arguments, before any look
\* at what follows it.
ShapeOnly ==
    IF exp.entry.lazy
    THEN IF StartsWithClosure
         THEN OfExpr(ParseExpr(exp.args, 1), "Closure", "")
         ELSE OfExpr(ParsePath(exp.args, 1), "Function", "")
    ELSE IF exp.args = <<>> THEN POk(1, NoCx)
    ELSE IF exp.args[1] = "str"
    THEN IF exp.entry.gen = GDerive
         THEN Only({LiteralShape(a) : a \in {ParseTerminated(exp.args, 2)}})
         ELSE LiteralBranch(exp.args, 1)
    ELSE OfExpr(ParseExpr(exp.args, 1), "Expr", "")

\* Tokens remain after the context shape.
LeftoverTokens == ShapeOnly.ok /\ ShapeOnly.pos <= Len(exp.args)

\* The diagnostic for leftover tokens: the context parser's own, and syn's
\* where the context parser leaves the end of input to syn::parse2.
UnexpectedTokens == IF exp.entry.gen = GDerive THEN "unexpected token" ELSE "Unexpected tokens"

\* C16: on both entry points, arguments with tokens left after the context
\* shape are rejected with an unexpected-tokens diagnostic, and no context
\* is produced from them.
C16_LeftoverRejected ==
    (ArgsParsed /\ ~OverrideGiven /\ LeftoverTokens) =>
        /\ ArgsRejected
        /\ exp.diag = UnexpectedTokens
        /\ exp.parsed.cx = NoCx

\* with_context and context given two identifiers in a row.
C16_Witness ==
    /\ exp.entry.gen = GContext
    /\ exp.args = <<"id", "id">>
    /\ ArgsRejected
    /\ exp.diag = "Unexpected tokens"

\* The generations behind errify / errify_with, which read any function
\* signature alike.
UnifiedGens == {GErrify, GRoot}

\* The target has a receiver argument.
HasReceiver == Len(exp.item.inputs) >= 1 /\ exp.item.inputs[1].kind = "receiver"

\* The target parse refused the item.
TargetRejected ==
    /\ Len(exp.trail) >= 1 /\ exp.trail[Len(exp.trail)] = "parse_input"
    /\ exp.pc \in {"failed", "done"}

\* C17: errify / errify_with accept a target with a receiver as they accept
\* a free function; the emitted function has the argument list of the source,
\* receiver included, under the source's name, and the source's body is the
\* body of the inner closure, which takes no arguments of its own.
C17_ReceiverUnchanged ==
    (exp.entry.gen \in UnifiedGens /\ HasReceiver) =>
        /\ ~TargetRejected
        /\ "parse_input" \in {exp.trail[k] : k \in 1..Len(exp.trail)} => exp.kind = "Fn"
        /\ Expanded =>
              /\ EmittedFn.inputs = exp.item.inputs
              /\ EmittedFn.ident = exp.item.ident
              /\ EmittedFn.inner.form = "closure"
              /\ EmittedFn.inner.block = exp.item.block
              /\ EmittedFn.inner.inputs = <<>>

\* errify expanded on a method.
C17_Witness ==
    /\ Expanded
    /\ exp.entry.gen = GErrify
    /\ exp.item = MethodFn
    /\ EmittedFn.inputs[1].kind = "receiver"

\* The target was classified as a method or as an entry of an impl block.
MethodOrImplEntry == exp.kind \in {"Method", "Impl"}

StagesUpTo(k) == SubSeq(Pipeline(exp.entry.gen), 1, k)

\* Success: every stage ran once, in order, and the rewritten item is out.
SuccessTerminal ==
    /\ exp.outcome = "tokens"
    /\ exp.trail = Pipeline(exp.entry.gen)
    /\ Len(exp.out) = 1
    /\ exp.diag = ""

\* Failure: the stages ran in order up to the one that failed, none after
\* it, and the diagnostic is all that is out.
FailureTerminal ==
    /\ exp.outcome = "diag"
    /\ \E k \in 1..(Len(Pipeline(exp.entry.gen)) - 1) : exp.trail = StagesUpTo(k)
    /\ exp.out = <<>>
    /\ exp.diag # ""

InnerName == IF EmittedFn.inner.form = "closure" THEN "__errify_fn" ELSE EmittedFn.inner.ident

\* The positions of the emitted body that call the inner callable.
InnerCalls ==
    {k \in 1..Len(EmittedFn.stmts) :
        EmittedFn.stmts[k].op = "call" /\ EmittedFn.stmts[k].call.callee = InnerName}

\* The await points of the emitted body.
AwaitPoints == {k \in 1..Len(EmittedFn.stmts) : EmittedFn.stmts[k].call.await}

\* The k-th statement runs in an unsafe scope: inside an unsafe block, or
\* in the body of an unsafe function.
InUnsafeScope(k) == EmittedFn.stmts[k].call.unsafe_scope \/ EmittedFn.unsafety

\* C20: the emitted function calls the inner callable once; the call is
\* awaited exactly when the source is async and runs in an unsafe scope
\* exactly when the source is unsafe; for an async unsafe source the one
\* await of the emitted body is that of the call, inside the unsafe scope.
C20_AwaitAndUnsafe ==
    Expanded =>
        /\ Cardinality(InnerCalls) = 1
        /\ \A k \in InnerCalls :
              /\ EmittedFn.stmts[k].call.await <=> exp.item.asyncness
              /\ InUnsafeScope(k) <=> exp.item.unsafety
        /\ AwaitPoints = IF exp.item.asyncness THEN InnerCalls ELSE {}

\* An async unsafe function expanded.
C20_Witness ==
    /\ Expanded
    /\ exp.item.asyncness /\ exp.item.unsafety
    /\ \E k \in InnerCalls : EmittedFn.stmts[k].call.await /\ InUnsafeScope(k)

\* C21: the inner callable of the emitted function holds the block of the
\* source as it was written; a call of the emitted function runs it once,
\* whatever the argument and the context, never a second time; the result is
\* looked at only after the body has returned, and the context is applied
\* only when that result is Err.
C21_BodyOnceThenInspect ==
    /\ Expanded =>
          /\ EmittedFn.inner.form \in {"closure", "nested_fn"}
          /\ EmittedFn.inner.block = exp.item.block
    /\ run.active =>
          /\ Count(run.log, "body_start") <= 1
          /\ Count(run.log, "body_end") = Count(run.log, "body_start")
          /\ Preceded(run.log, "body_end", "wrap")
          /\ run.ret # <<>> => run.res # <<>>
          /\ Count(run.log, "wrap") > 0 => (run.res # <<>> /\ run.res[1].tag = "Err")
    /\ Finished =>
          /\ Count(run.log, "body_start") = 1
          /\ run.res = <<OriginalResult>>

\* A nested-function expansion whose body failed once and was wrapped.
C21_Witness ==
    /\ Finished
    /\ EmittedFn.inner.form = "nested_fn"
    /\ OriginalResult.tag = "Err"
    /\ Count(run.log, "body_start") = 1
    /\ Count(run.log, "wrap") = 1

\* The diagnostics that reject a return type.
ReturnTypeDiags == {InvalidReturn, OkNotFound, "Result<...> only supported"}

\* The arguments parse and name a context, the target parses, and the
\* return type of the target is not Result-shaped.
OnlyReturnTypeAndLater ==
    /\ ParseMacroArgs(exp.entry, exp.args).ok
    /\ exp.parsed.cx.shape # "None"
    /\ ParseInputOf(exp.entry, exp.item).ok
    /\ ~ok_ty(exp.item.output).ok

\* C22: the diagnostic of a failed expansion is that of the earliest stage
\* in the order arguments, target, return type, backend selection: an
\* argument error wins over everything, a target error over a return-type
\* error, and an invalid return type over a backend-selection error.
C22_EarliestStageDiagnostic ==
    (exp.pc = "done" /\ exp.outcome = "diag" /\ BuilderInSources) =>
        /\ ~ParseMacroArgs(exp.entry, exp.args).ok =>
              exp.diag = ParseMacroArgs(exp.entry, exp.args).msg
        /\ (ParseMacroArgs(exp.entry, exp.args).ok /\ ~ParseInputOf(exp.entry, exp.item).ok) =>
              exp.diag = ParseInputOf(exp.entry, exp.item).msg
        /\ OnlyReturnTypeAndLater => exp.diag \in ReturnTypeDiags

\* The target parse of the expansion is over.
TargetParsed == \E k \in 1..Len(exp.trail) : exp.trail[k] = "parse_input"

\* The generations whose target parser classifies the item.
ClassifyingGens == {GContext, GDerive}

\* The diagnostics that name the two supported shapes.
TargetDiags == {TargetOnly, DeriveTargetOnly}

\* C23: a function item is classified Method exactly when its first
\* argument is a receiver, and Function otherwise; an item that is no
\* function item but is an entry of an impl block (a default fn, an
\* associated const) is classified ImplEntry; any other item is rejected
\* with the diagnostic naming the two supported shapes.
C23_TargetClassification ==
    (exp.entry.gen \in ClassifyingGens /\ TargetParsed) =>
        CASE exp.item.syntax = "fn" ->
                /\ ~TargetRejected
                /\ exp.kind = IF HasReceiver THEN "Method" ELSE "Function"
          [] exp.item.syntax \in {"default_fn", "impl_const"} ->
                /\ ~TargetRejected
                /\ exp.kind = "Impl"
          [] OTHER ->
                /\ TargetRejected
                /\ exp.diag \in TargetDiags

\* C29: when the function-item attempt of the target parser fails, nothing
\* of the item has been consumed: the impl-entry attempt starts at the first
\* token of the item, before its attributes and its visibility.
C29_FailedAttemptConsumesNothing ==
    (exp.entry.gen \in ClassifyingGens /\ TargetParsed /\ exp.item.syntax # "fn") =>
        exp.skipped = {}

\* The last stage that ran.
LastStage == exp.trail[Len(exp.trail)]

\* The stage st ran and returned an error.
StageFailed(st) == exp.trail # <<>> /\ LastStage = st /\ exp.pc \in {"failed", "done"} /\ exp.outcome # "tokens"

\* The stage st ran and returned Ok.
StagePassed(st) ==
    \E k \in 1..Len(exp.trail) :
        exp.trail[k] = st /\ (k < Len(exp.trail) \/ exp.pc \notin {"failed", "done"} \/ exp.outcome = "tokens")

\* The return type is present, is a path, and its last segment has angle
\* brackets whose first argument is a type.
ResultShaped ==
    /\ exp.item.output.arrow
    /\ exp.item.output.kind = "path"
    /\ exp.item.output.angle
    /\ Len(exp.item.output.gargs) >= 1
    /\ exp.item.output.gargs[1].kind = "type"

\* The stage that calls ok_ty has been reached: the backend providers before
\* it have returned Ok.
OkTyCalled == \E k \in 1..Len(exp.trail) : exp.trail[k] = "outer_fn"

\* C24: ok_ty succeeds exactly when the return type is present, is a path,
\* and the last segment has angle brackets whose first argument is a type;
\* the type it returns is that first argument; with no return type, a tuple,
\* no angle brackets, empty angle brackets or a first argument that is a
\* lifetime or a const it fails.
C24_OkTyExactly ==
    (exp.entry.gen = GContext /\ OkTyCalled) =>
        IF ResultShaped
        THEN /\ StagePassed("outer_fn")
             /\ exp.out # <<>> => exp.out[1].output.gargs[1] = exp.item.output.gargs[1]
        ELSE StageFailed("outer_fn")

\* ok_ty has taken the first type of a three-segment path with two arguments.
C24_Witness ==
    /\ exp.entry.gen = GContext
    /\ exp.item.output = PathTy(<<"std", "result", "Result">>, TRUE,
                                <<TypeArg("CustomError"), [kind |-> "lifetime", name |-> "'a"]>>)
    /\ Expanded
    /\ EmittedFn.output.gargs[1] = TypeArg("CustomError")

\* C25: whatever makes ok_ty reject a return type (none, a tuple, no angle
\* brackets, empty angle brackets, a first argument that is no type), the
\* diagnostic is the same expected-Result message.
C25_UniformMessage ==
    (exp.entry.gen = GContext /\ OkTyCalled /\ ~ResultShaped) =>
        (StageFailed("outer_fn") /\ exp.diag = InvalidReturn)

\* The argument list holds a receiver, at any position.
AnyReceiver == \E i \in 1..Len(exp.item.inputs) : exp.item.inputs[i].kind = "receiver"

\* C26: clear_inputs fails with the self-not-supported error exactly when
\* the argument list holds a receiver at any position; otherwise the list it
\* returns has the length and the order of the source, every entry with the
\* type and the attributes of its argument, with the identifier of a plain
\* identifier pattern and with arg<i>, i the zero-based position, for any
\* other pattern; the forwarding call passes these identifiers in order.
C26_ClearInputs ==
    (exp.entry.gen = GContext /\ \E k \in 1..Len(exp.trail) : exp.trail[k] = "clear_inputs") =>
        IF AnyReceiver
        THEN StageFailed("clear_inputs") /\ exp.diag = "self argument not supported"
        ELSE /\ StagePassed("clear_inputs")
             /\ Len(exp.outer_args) = Len(exp.item.inputs)
             /\ \A i \in 1..Len(exp.item.inputs) :
                   /\ exp.outer_args[i].ty = exp.item.inputs[i].ty
                   /\ exp.outer_args[i].attrs = exp.item.inputs[i].attrs
                   /\ exp.outer_args[i].name =
                         IF exp.item.inputs[i].pat = "ident" THEN exp.item.inputs[i].name
                         ELSE "arg" \o ToString(i - 1)
             /\ StagePassed("call_expr") =>
                   /\ Len(exp.call.args) = Len(exp.outer_args)
                   /\ \A i \in 1..Len(exp.outer_args) : exp.call.args[i] = exp.outer_args[i].name

\* An attributed identifier kept and a tuple pattern at position 2 renamed.
C26_Witness ==
    /\ Len(exp.item.inputs) = 3
    /\ exp.item.inputs[2].attrs = <<"cfg">>
    /\ exp.item.inputs[3].pat = "tuple"
    /\ StagePassed("call_expr")
    /\ exp.call.args = <<"arg", "flag", "arg2">>

\* The identifiers the source argument list names.
SourceIdents == {i \in 1..Len(exp.item.inputs) : exp.item.inputs[i].pat = "ident"}

SourceIdentsDistinct ==
    \A i, j \in SourceIdents : i # j => exp.item.inputs[i].name # exp.item.inputs[j].name

\* C27: when the identifiers named in the source argument list are pairwise
\* distinct, so are the identifiers of the list clear_inputs returns.
C27_CleanIdentsDistinct ==
    (exp.entry.gen = GContext /\ StagePassed("clear_inputs") /\ SourceIdentsDistinct) =>
        \A i, j \in 1..Len(exp.outer_args) :
            i # j => exp.outer_args[i].name # exp.outer_args[j].name

\* One stage of an expansion as a function of the expansion's own values and
\* of the enabled features: the value of e after the statement e.pc names.
RunStage(e, feats) ==
    CASE e.pc = "parse_args" ->
            IF ParseMacroArgs(e.entry, e.args).ok
            THEN [Adv(e, "parse_args") EXCEPT !.parsed = ParseMacroArgs(e.entry, e.args).val]
            ELSE Fail(e, "parse_args", ParseMacroArgs(e.entry, e.args).msg)
      [] e.pc = "parse_input" ->
            IF ParseInputOf(e.entry, e.item).ok
            THEN [Adv(e, "parse_input") EXCEPT !.kind = ParseInputOf(e.entry, e.item).kind,
                                               !.skipped = ParseInputOf(e.entry, e.item).skipped]
            ELSE [Fail(e, "parse_input", ParseInputOf(e.entry, e.item).msg) EXCEPT
                     !.skipped = ParseInputOf(e.entry, e.item).skipped]
      [] e.pc = "dispatch" ->
            IF e.kind = "Function" THEN Adv(e, "dispatch")
            ELSE [e EXCEPT !.pc = "done", !.outcome = "panic", !.trail = Append(@, "dispatch")]
      [] e.pc = "inner_fn" ->
            [Adv(e, "inner_fn") EXCEPT
                !.inner = IF e.entry.gen \in ContextGens THEN InnerNestedFn(e.item)
                          ELSE InnerClosure(e.item)]
      [] e.pc = "clear_inputs" ->
            IF clear_inputs(e.item.inputs).ok
            THEN [Adv(e, "clear_inputs") EXCEPT !.outer_args = clear_inputs(e.item.inputs).args]
            ELSE Fail(e, "clear_inputs", clear_inputs(e.item.inputs).msg)
      [] e.pc = "call_expr" ->
            IF e.entry.gen \in ContextGens
            THEN [Adv(e, "call_expr") EXCEPT !.call = NestedCall(e.inner, e.outer_args)]
            ELSE IF ~e.item.output.arrow
            THEN Fail(e, "call_expr", "Result<...> only supported")
            ELSE [Adv(e, "call_expr") EXCEPT !.call = ClosureCall(e.item)]
      [] e.pc = "cx_data" ->
            IF e.parsed.cx.shape = "None"
            THEN Fail(e, "cx_data", "The macro requires arguments")
            ELSE Adv(e, "cx_data")
      [] e.pc = "err_ty" ->
            IF SelectErrTy(e.parsed.err_ty, feats).ok
            THEN [Adv(e, "err_ty") EXCEPT !.err_ty = SelectErrTy(e.parsed.err_ty, feats).ty]
            ELSE Fail(e, "err_ty", SelectErrTy(e.parsed.err_ty, feats).msg)
      [] e.pc = "context_provider" ->
            IF context_provider_generic(e.entry.gen, feats, e.call, e.parsed.cx).ok
            THEN [Adv(e, "context_provider") EXCEPT
                     !.stmts = context_provider_generic(e.entry.gen, feats, e.call, e.parsed.cx).stmts]
            ELSE Fail(e, "context_provider",
                      context_provider_generic(e.entry.gen, feats, e.call, e.parsed.cx).msg)
      [] e.pc = "apply_context" ->
            [Adv(e, "apply_context") EXCEPT
                !.stmts = IF e.entry.gen = GErrify
                          THEN apply_context(e.call, e.parsed.cx, e.err_ty)
                          ELSE root_apply_context(e.call, e.parsed.cx, OwnErrTy(e.item.output))]
      [] e.pc = "outer_fn" ->
            IF BuildOuter(e, feats).ok
            THEN [Adv(e, "outer_fn") EXCEPT !.out = BuildOuter(e, feats).out]
            ELSE Fail(e, "outer_fn", BuildOuter(e, feats).msg)
      [] e.pc = "emit" ->
            [e EXCEPT !.pc = "done", !.outcome = "tokens", !.trail = Append(@, "emit")]
      [] e.pc = "failed" ->
            [e EXCEPT !.pc = "done", !.outcome = "diag", !.out = <<>>]
      [] OTHER -> e

\* The expansion e carried to its end.
RECURSIVE RunToEnd(_, _)
RunToEnd(e, feats) ==
    IF e.pc \in {"done", "idle"} THEN e ELSE RunToEnd(RunStage(e, feats), feats)

\* What the expansion in progress is determined to end as by its three
\* inputs alone: the argument tokens, the item, the enabled features.
ExpansionOfInputs ==
    RunToEnd([IdleExp EXCEPT !.pc = "parse_args", !.entry = exp.entry, !.args = exp.args,
                             !.item = exp.item],
             features)

====
